---- MODULE Spec2Model ----
(***************************************************************************)
(* Model of the int64 -> uint32 chained hash table of                      *)
(* src/backend/affinity/utils/hash64.c: ht_create, ht_resize, ht_put,      *)
(* ht_get, ht_remove, ht_clear, ht_destroy and the hash function, and of   *)
(* the partition map of src/backend/affinity/affinity.c built on it.       *)
(* The same table code is also given at the level of pointers (heap), for  *)
(* the properties of allocation and release.                               *)
(*                                                                         *)
(* A table is a record [buckets, size, count]; buckets is the bucket       *)
(* array, one chain per bucket, a chain being the sequence of the entries  *)
(* linked from the bucket head (head first).  C index i is TLA+ index i+1. *)
(* 64-bit unsigned arithmetic is done on eight little-endian bytes, since  *)
(* the model checker's integers are 32 bits wide.                          *)
(***************************************************************************)
EXTENDS Integers, Sequences, FiniteSets, TLC

(***************************************************************************)
(* Bounds of the model.                                                    *)
(***************************************************************************)
NumKeys == 3        \* how many keys of KeyPool the callers use
NumValues == 2      \* values are 1 .. NumValues
MaxInitCap == 2     \* ht_create is called with 1 .. MaxInitCap buckets
MaxLines == 2       \* the partition map file has 0 .. MaxLines lines
MaxNodes == 3       \* entry nodes a table allocates between ht_create and ht_destroy

\* #define INIT_BULK_SIZE 20480: the bucket count of the partition map
INIT_BULK_SIZE == 20480

KeyPool == <<1001, 2002, -1, 0, 1000, 2000, 3000, -7>>
Keys == {KeyPool[i] : i \in 1..NumKeys}
Values == 1..NumValues
InitCaps == 1..MaxInitCap

\* the NULL pointer: a table value that has none of the fields of a table
NULL == [null |-> TRUE]

(***************************************************************************)
(* 64-bit unsigned arithmetic on bytes (least significant byte first).     *)
(***************************************************************************)
Bytes8 == 1..8

\* affinity_ukey_t h = key: the two's complement reinterpretation of a
\* signed key (here within the 32-bit range, sign-extended to 64 bits).
RECURSIVE NatBytes(_, _)
NatBytes(n, len) ==
    IF len = 0 THEN <<>> ELSE <<n % 256>> \o NatBytes(n \div 256, len - 1)

ToU64(key) ==
    IF key >= 0 THEN NatBytes(key, 8)
    ELSE LET m == NatBytes((-key) - 1, 8) IN [i \in Bytes8 |-> 255 - m[i]]

\* bit j (0..63) of h
BitOf(h, j) == (h[(j \div 8) + 1] \div (2 ^ (j % 8))) % 2

\* h >> n
ShiftRight(h, n) ==
    [i \in Bytes8 |->
        LET bit(b) == IF 8 * (i - 1) + b + n <= 63
                      THEN BitOf(h, 8 * (i - 1) + b + n) ELSE 0
        IN  bit(0) + 2 * bit(1) + 4 * bit(2) + 8 * bit(3) + 16 * bit(4)
            + 32 * bit(5) + 64 * bit(6) + 128 * bit(7)]

\* a ^ b
Xor64(a, b) ==
    [i \in Bytes8 |->
        LET bit(j) == (BitOf(a, 8 * (i - 1) + j) + BitOf(b, 8 * (i - 1) + j)) % 2
        IN  bit(0) + 2 * bit(1) + 4 * bit(2) + 8 * bit(3) + 16 * bit(4)
            + 32 * bit(5) + 64 * bit(6) + 128 * bit(7)]

\* a * b modulo 2^64 (schoolbook multiplication, carries propagated upward)
RECURSIVE ColumnSum(_, _, _, _)
ColumnSum(a, b, col, i) ==
    IF i > col THEN 0 ELSE a[i] * b[col - i + 1] + ColumnSum(a, b, col, i + 1)

RECURSIVE MulCarry(_, _, _, _)
MulCarry(a, b, col, carry) ==
    IF col > 8 THEN <<>>
    ELSE LET s == ColumnSum(a, b, col, 1) + carry
         IN  <<s % 256>> \o MulCarry(a, b, col + 1, s \div 256)

Mul64(a, b) == MulCarry(a, b, 1, 0)

\* h % size, most significant byte first
RECURSIVE ModFrom(_, _, _, _)
ModFrom(h, size, i, r) ==
    IF i = 0 THEN r ELSE ModFrom(h, size, i - 1, (r * 256 + h[i]) % size)

Mod64(h, size) == ModFrom(h, size, 8, 0)

MulA == <<205, 140, 85, 237, 215, 175, 81, 255>>   \* 0xff51afd7ed558ccd
MulB == <<83, 236, 133, 26, 254, 185, 206, 196>>   \* 0xc4ceb9fe1a85ec53

\* the three xor-shift / multiply rounds of hash()
Mix64(key) ==
    LET h0 == ToU64(key)
        h1 == Xor64(h0, ShiftRight(h0, 33))
        h2 == Mul64(h1, MulA)
        h3 == Xor64(h2, ShiftRight(h2, 33))
        h4 == Mul64(h3, MulB)
    IN  Xor64(h4, ShiftRight(h4, 33))

\* the mixed key of every key in use, computed once
Mixed == [k \in Keys |-> Mix64(k)]

\* h % size for the sizes a table of these keys can take and for the size of
\* the partition map, computed once;
\* hash() falls back on the division for any other size
MemoSizes == (1..(3 * NumKeys + MaxInitCap)) \cup {INIT_BULK_SIZE}
Reduced == [k \in Keys |-> [s \in MemoSizes |-> Mod64(Mixed[k], s)]]

\* hash(key, size): the bucket index, 0 .. size-1
hash(key, size) ==
    IF size \in MemoSizes THEN Reduced[key][size] ELSE Mod64(Mixed[key], size)

(***************************************************************************)
(* The table operations as functions of the table value.  Every malloc /   *)
(* calloc takes a flag saying whether that allocation succeeds.            *)
(***************************************************************************)
Entry(key, value) == [key |-> key, value |-> value]

\* calloc(size, sizeof(Entry *)): size empty chains
EmptyBuckets(size) == [i \in 1..size |-> <<>>]

\* ht_create: NULL when either allocation fails
ht_create(size, mallocOk, callocOk) ==
    IF ~mallocOk THEN NULL
    ELSE IF ~callocOk THEN NULL
    ELSE [buckets |-> EmptyBuckets(size), size |-> size, count |-> 0]

\* ht_load_factor: (double) count / (double) size, kept as the exact ratio
ht_load_factor(t) == [num |-> t.count, den |-> t.size]

\* faulty variant: the threshold taken as 1.0
AboveThreshold_one(lf) == lf.num > lf.den

\* faulty variant: ">=" written for ">"
AboveThreshold_ge(lf) == lf.num * 4 >= lf.den * 3

\* the comparison "ht_load_factor(ht) > 0.75" of ht_put
AboveThreshold(lf) == lf.num * 4 > lf.den * 3

\* faulty variant: current->next is read after the entry was relinked, so the
\* walk of an old chain stops after its head and the rest is lost
RelinkChain_lostNext(chain, t, new_size) ==
    IF chain = <<>> THEN t
    ELSE LET current == Head(chain)
             new_index == hash(current.key, new_size)
         IN  [t EXCEPT !.buckets[new_index + 1] = <<current>> \o @,
                       !.count = @ + 1]

\* faulty variant: the new index is computed against the old size, so every
\* entry of an old chain is pushed on the bucket of the same index
RelinkChain_oldIndex(chain, t, new_size) ==
    IF chain = <<>> THEN t
    ELSE LET index == hash(Head(chain).key, new_size \div 2)
             reversed == [e \in 1..Len(chain) |-> chain[Len(chain) + 1 - e]]
         IN  [t EXCEPT !.buckets[index + 1] = reversed \o @,
                       !.count = @ + Len(chain)]

\* inner loop of ht_resize: walk one old chain from its head and push each
\* entry on the front of its new bucket, counting it
RECURSIVE RelinkChain(_, _, _)
RelinkChain(chain, t, new_size) ==
    IF chain = <<>> THEN t
    ELSE LET current == Head(chain)
             new_index == hash(current.key, new_size)
         IN  RelinkChain(Tail(chain),
                         [t EXCEPT !.buckets[new_index + 1] = <<current>> \o @,
                                   !.count = @ + 1],
                         new_size)

\* outer loop of ht_resize: old buckets i .. old_size-1
RECURSIVE RelinkFrom(_, _, _, _, _)
RelinkFrom(old_buckets, old_size, i, t, new_size) ==
    IF i >= old_size THEN t
    ELSE RelinkFrom(old_buckets, old_size, i + 1,
                    RelinkChain(old_buckets[i + 1], t, new_size), new_size)

\* faulty variant: "ht->count = 0" left out before the entries are recounted
ht_resize_keepCount(t, new_size, callocOk) ==
    IF ~callocOk THEN t
    ELSE RelinkFrom(t.buckets, t.size, 0,
                    [buckets |-> EmptyBuckets(new_size), size |-> new_size,
                     count |-> t.count],
                    new_size)

\* faulty variant: the old bucket array is not put back when calloc fails,
\* and the table is left with no chain
ht_resize_noRestore(t, new_size, callocOk) ==
    IF ~callocOk THEN [t EXCEPT !.buckets = EmptyBuckets(t.size)]
    ELSE RelinkFrom(t.buckets, t.size, 0,
                    [buckets |-> EmptyBuckets(new_size), size |-> new_size, count |-> 0],
                    new_size)

\* ht_resize: on calloc failure the old bucket array is put back
ht_resize(t, new_size, callocOk) ==
    IF ~callocOk THEN t
    ELSE RelinkFrom(t.buckets, t.size, 0,
                    [buckets |-> EmptyBuckets(new_size), size |-> new_size, count |-> 0],
                    new_size)

\* position (1-based) of the first entry of chain that holds key, 0 if none:
\* the "while (current != NULL) if (current->key == key)" scan
RECURSIVE ScanFrom(_, _, _)
ScanFrom(chain, key, pos) ==
    IF pos > Len(chain) THEN 0
    ELSE IF chain[pos].key = key THEN pos
    ELSE ScanFrom(chain, key, pos + 1)

Scan(chain, key) == ScanFrom(chain, key, 1)

\* whether this ht_put starts with a resize
PutResizes(t) == AboveThreshold(ht_load_factor(t))

\* the table after the resize step of ht_put
PutResizeStep(t, callocOk) ==
    IF PutResizes(t) THEN ht_resize(t, t.size * 2, callocOk) ELSE t

\* faulty variant: no "return" after the update, so a node is pushed as well
PutInsertStep_noReturn(t, key, value, mallocOk) ==
    LET index == hash(key, t.size)
        chain == t.buckets[index + 1]
        pos   == Scan(chain, key)
        upd   == IF pos # 0 THEN [chain EXCEPT ![pos].value = value] ELSE chain
    IN  IF ~mallocOk THEN [t EXCEPT !.buckets[index + 1] = upd]
        ELSE [t EXCEPT !.buckets[index + 1] = <<Entry(key, value)>> \o upd,
                       !.count = @ + 1]

\* faulty variant: count is incremented before the malloc result is tested
PutInsertStep_countFirst(t, key, value, mallocOk) ==
    LET index == hash(key, t.size)
        chain == t.buckets[index + 1]
        pos   == Scan(chain, key)
    IN  IF pos # 0 THEN [t EXCEPT !.buckets[index + 1][pos].value = value]
        ELSE IF ~mallocOk THEN [t EXCEPT !.count = @ + 1]
        ELSE [t EXCEPT !.buckets[index + 1] = <<Entry(key, value)>> \o chain,
                       !.count = @ + 1]

\* faulty variant: the new node is linked at the tail of the chain
PutInsertStep_append(t, key, value, mallocOk) ==
    LET index == hash(key, t.size)
        chain == t.buckets[index + 1]
        pos   == Scan(chain, key)
    IN  IF pos # 0 THEN [t EXCEPT !.buckets[index + 1][pos].value = value]
        ELSE IF ~mallocOk THEN t
        ELSE [t EXCEPT !.buckets[index + 1] = chain \o <<Entry(key, value)>>,
                       !.count = @ + 1]

\* the update-or-insert part of ht_put, on the table left by the resize step
PutInsertStep(t, key, value, mallocOk) ==
    LET index == hash(key, t.size)
        chain == t.buckets[index + 1]
        pos   == Scan(chain, key)
    IN  IF pos # 0 THEN [t EXCEPT !.buckets[index + 1][pos].value = value]
        ELSE IF ~mallocOk THEN t
        ELSE [t EXCEPT !.buckets[index + 1] = <<Entry(key, value)>> \o chain,
                       !.count = @ + 1]

ht_put(t, key, value, callocOk, mallocOk) ==
    PutInsertStep(PutResizeStep(t, callocOk), key, value, mallocOk)

\* ht_get: the return value and the contents of *out_value afterwards
\* (out is what the caller's variable held before the call)
ht_get(t, key, out) ==
    LET index == hash(key, t.size)
        chain == t.buckets[index + 1]
        pos   == Scan(chain, key)
    IN  IF pos # 0 THEN [ret |-> TRUE, out |-> chain[pos].value]
        ELSE [ret |-> FALSE, out |-> out]

\* (affinity_value_t) -1, that is 4294967295: a uint32 value is written as
\* the signed 32-bit integer with the same 32 bits
ValueMinusOne == -1

\* faulty variant: 0 returned for a key that is not found
ht_get_value_zero(t, key) ==
    LET index == hash(key, t.size)
        chain == t.buckets[index + 1]
        pos   == Scan(chain, key)
    IN  IF pos # 0 THEN chain[pos].value ELSE 0

\* ht_get_value: the value of the key, -1 converted to affinity_value_t if
\* the key is not in its chain
ht_get_value(t, key) ==
    LET index == hash(key, t.size)
        chain == t.buckets[index + 1]
        pos   == Scan(chain, key)
    IN  IF pos # 0 THEN chain[pos].value ELSE ValueMinusOne

\* ht_contains: ht_get with out_value NULL, nothing is written
ht_contains(t, key) == ht_get(t, key, 0).ret

\* chain without its entry at position pos
Unlink(chain, pos) ==
    [i \in 1..(Len(chain) - 1) |-> IF i < pos THEN chain[i] ELSE chain[i + 1]]

\* faulty variant: "ht->count--" left out
ht_remove_noDecrement(t, key) ==
    LET index == hash(key, t.size)
        chain == t.buckets[index + 1]
        pos   == Scan(chain, key)
    IN  IF pos # 0
        THEN [ht  |-> [t EXCEPT !.buckets[index + 1] = Unlink(chain, pos)],
              ret |-> TRUE]
        ELSE [ht |-> t, ret |-> FALSE]

\* ht_remove: the table afterwards and the return value
ht_remove(t, key) ==
    LET index == hash(key, t.size)
        chain == t.buckets[index + 1]
        pos   == Scan(chain, key)
    IN  IF pos # 0
        THEN [ht  |-> [t EXCEPT !.buckets[index + 1] = Unlink(chain, pos),
                                !.count = @ - 1],
              ret |-> TRUE]
        ELSE [ht |-> t, ret |-> FALSE]

\* faulty variant: "ht->count = 0" left out
ht_clear_keepCount(t) ==
    [t EXCEPT !.buckets = [i \in 1..t.size |-> <<>>]]

\* faulty variant: the bucket array is given up for a new one of one bucket
ht_clear_oneBucket(t) ==
    [t EXCEPT !.buckets = <<<<>>>>, !.size = 1, !.count = 0]

\* ht_clear: every chain freed, every head NULL, count 0, size kept
ht_clear(t) ==
    [t EXCEPT !.buckets = [i \in 1..t.size |-> <<>>], !.count = 0]

\* ht_size
ht_size(t) == t.count

(***************************************************************************)
(* State.  ht is the caller's table handle (NULL: no table).  lastOp       *)
(* records the call that was made last: its arguments, what it returned    *)
(* and which of its allocations succeeded.  given, distinctPuts and        *)
(* allocFailed keep the history of the table since ht_create.              *)
(* partition_map is the static table handle of affinity.c, mapOp the last  *)
(* call made to affinity.c, and proc tells whether the process still runs. *)
(***************************************************************************)
VARIABLES
    ht,            \* the table, or NULL
    lastOp,        \* the last call made
    given,         \* given[k]: the value of the ht_put(k, v) calls so far, 0 if none
    distinctPuts,  \* TRUE while the table has seen only successful ht_put calls on
                   \* pairwise distinct keys since it was created
    allocFailed,   \* TRUE once an allocation has failed since the table was created
    partition_map, \* static HashTable *partition_map, or NULL
    mapOp,         \* the last call made to the partition map
    proc,          \* "running", "exited" after exit(-1), "crashed" after a fault
    initial_capacity, \* the size ht was created with, 0 while there is no table
    heap           \* the memory of a table at the level of pointers (see below)

vars == <<ht, lastOp, given, distinctPuts, allocFailed, partition_map, mapOp, proc,
          initial_capacity, heap>>

\* the state of affinity.c
mapVars == <<partition_map, mapOp, proc>>

\* the state of a caller of hash64.c
tableVars == <<ht, lastOp, given, distinctPuts, allocFailed, initial_capacity>>

NoValue == 0       \* stands for "no value" in lastOp and given; not in Values

\* op: the function called; key, value: its arguments; ret: what it returned;
\* out: *out_value after ht_get; resize, node: "none" when the call did not
\* reach that allocation, else "done" or "failed"; count0: ht->count when the
\* call was made
Op(op, key, value, ret, out, resize, node, count0) ==
    [op |-> op, key |-> key, value |-> value, ret |-> ret, out |-> out,
     resize |-> resize, node |-> node, count0 |-> count0]

NoneGiven == [k \in Keys |-> NoValue]

\* op: the function of affinity.c called; key: its key argument; ret: what it
\* returned ("true", "false", "value", "void", or "exit" / "fault" when it did
\* not return); out: the value returned; loaded: whether the data file has been
\* read to its end into the map that exists; access: "table" when the call
\* passed an existing table to hash64.c, "NULL" when it passed NULL, "none"
\* when it passed nothing
MapOp(op, key, ret, out, loaded, access) ==
    [op |-> op, key |-> key, ret |-> ret, out |-> out, loaded |-> loaded,
     access |-> access]

(***************************************************************************)
(* The memory of a table, at the level of pointers.  An entry node is one  *)
(* of NodeIds; the pointer 0 is the NULL entry pointer.  A node is         *)
(* "unused" until malloc returns it, then "live", then "freed"; malloc     *)
(* never returns a freed node again, so that any use of a freed node       *)
(* shows.  heap is the record                                              *)
(*   table    "none", "live" or "freed": the HashTable structure           *)
(*   buckets  ht->buckets: the head pointer of every chain                 *)
(*   size, count   ht->size, ht->count                                     *)
(*   node     for every node its key, value, next pointer and state        *)
(*   arrays   how many bucket arrays are allocated                         *)
(*   fault    "none", or the first misuse of memory: "use_after_free",     *)
(*            "double_free"                                                *)
(*   op       the last call; freed, arraysFreed: the nodes and the number  *)
(*            of bucket arrays that call freed                             *)
(***************************************************************************)
NodeIds == 1..MaxNodes

NoNode == [key |-> 0, value |-> NoValue, next |-> 0, state |-> "unused"]

NoHeap ==
    [table |-> "none", buckets |-> <<>>, size |-> 0, count |-> 0,
     node |-> [n \in NodeIds |-> NoNode], arrays |-> 0, fault |-> "none",
     op |-> "none", freed |-> {}, arraysFreed |-> 0]

Init ==
    /\ ht = NULL
    /\ lastOp = Op("none", 0, NoValue, "void", NoValue, "none", "none", 0)
    /\ given = NoneGiven
    /\ distinctPuts = FALSE
    /\ allocFailed = FALSE
    /\ partition_map = NULL
    /\ mapOp = MapOp("none", 0, "void", NoValue, FALSE, "none")
    /\ proc = "running"
    /\ initial_capacity = 0
    /\ heap = NoHeap

\* HashTable *ht = ht_create(size);
Create ==
    /\ UNCHANGED mapVars
    /\ UNCHANGED heap
    /\ proc = "running"
    /\ ht = NULL
    /\ \E size \in InitCaps, mallocOk \in BOOLEAN, callocOk \in BOOLEAN :
          /\ ht' = ht_create(size, mallocOk, callocOk)
          /\ lastOp' = Op("ht_create", 0, NoValue,
                          IF ht' = NULL THEN "NULL" ELSE "table", NoValue,
                          "none", IF ht' = NULL THEN "failed" ELSE "done", 0)
          /\ given' = NoneGiven
          /\ distinctPuts' = (ht' # NULL)
          /\ allocFailed' = FALSE
          /\ initial_capacity' = IF ht' = NULL THEN 0 ELSE size

\* the outcomes an allocation can have: it is drawn only when the call
\* reaches the allocation
Outcomes(reached) == IF reached THEN BOOLEAN ELSE {TRUE}

\* ht_put(ht, key, value); on a table of size 0 see UndefinedIndex
Put ==
    /\ UNCHANGED mapVars
    /\ UNCHANGED heap
    /\ proc = "running"
    /\ ht # NULL
    /\ ht.size > 0
    /\ UNCHANGED initial_capacity
    /\ \E key \in Keys, value \in Values :
       \E callocOk \in Outcomes(PutResizes(ht)) :
          LET resizes == PutResizes(ht)
              mid     == PutResizeStep(ht, callocOk)
              isNew   == ~ht_get(mid, key, NoValue).ret
          IN  \E mallocOk \in Outcomes(isNew) :
                LET failed == ~callocOk \/ ~mallocOk
                    stillDistinct == distinctPuts /\ ~failed /\ given[key] = NoValue
                IN  /\ ht' = ht_put(ht, key, value, callocOk, mallocOk)
                    /\ lastOp' = Op("ht_put", key, value, "void", NoValue,
                                    IF ~resizes THEN "none"
                                    ELSE IF callocOk THEN "done" ELSE "failed",
                                    IF ~isNew THEN "none"
                                    ELSE IF mallocOk THEN "done" ELSE "failed",
                                    ht.count)
                    /\ distinctPuts' = stillDistinct
                    /\ allocFailed' = (allocFailed \/ failed)
                    /\ given' = IF stillDistinct THEN [given EXCEPT ![key] = value]
                                ELSE NoneGiven

\* found = ht_get(ht, key, &out);
Get ==
    /\ UNCHANGED mapVars
    /\ UNCHANGED heap
    /\ proc = "running"
    /\ ht # NULL
    /\ ht.size > 0
    /\ \E key \in Keys :
          LET r == ht_get(ht, key, NoValue)
          IN  lastOp' = Op("ht_get", key, NoValue,
                           IF r.ret THEN "true" ELSE "false", r.out, "none", "none",
                           ht.count)
    /\ UNCHANGED <<ht, given, distinctPuts, allocFailed, initial_capacity>>

\* value = ht_get_value(ht, key);
GetValue ==
    /\ UNCHANGED mapVars
    /\ UNCHANGED heap
    /\ proc = "running"
    /\ ht # NULL
    /\ ht.size > 0
    /\ \E key \in Keys :
          lastOp' = Op("ht_get_value", key, NoValue, "value", ht_get_value(ht, key),
                       "none", "none", ht.count)
    /\ UNCHANGED <<ht, given, distinctPuts, allocFailed, initial_capacity>>

\* found = ht_contains(ht, key);
Contains ==
    /\ UNCHANGED mapVars
    /\ UNCHANGED heap
    /\ proc = "running"
    /\ ht # NULL
    /\ ht.size > 0
    /\ \E key \in Keys :
          lastOp' = Op("ht_contains", key, NoValue,
                       IF ht_contains(ht, key) THEN "true" ELSE "false", NoValue,
                       "none", "none", ht.count)
    /\ UNCHANGED <<ht, given, distinctPuts, allocFailed, initial_capacity>>

\* n = ht_size(ht);
Size ==
    /\ UNCHANGED mapVars
    /\ UNCHANGED heap
    /\ proc = "running"
    /\ ht # NULL
    /\ lastOp' = Op("ht_size", 0, NoValue, "size_t", ht_size(ht), "none", "none", ht.count)
    /\ UNCHANGED <<ht, given, distinctPuts, allocFailed, initial_capacity>>

\* f = ht_load_factor(ht); out is the numerator of the ratio returned, the
\* denominator being the capacity
LoadFactor ==
    /\ UNCHANGED mapVars
    /\ UNCHANGED heap
    /\ proc = "running"
    /\ ht # NULL
    /\ lastOp' = Op("ht_load_factor", 0, NoValue, "double", ht_load_factor(ht).num,
                    "none", "none", ht.count)
    /\ UNCHANGED <<ht, given, distinctPuts, allocFailed, initial_capacity>>

\* removed = ht_remove(ht, key);
Remove ==
    /\ UNCHANGED mapVars
    /\ UNCHANGED heap
    /\ proc = "running"
    /\ ht # NULL
    /\ ht.size > 0
    /\ \E key \in Keys :
          LET r == ht_remove(ht, key)
          IN  /\ ht' = r.ht
              /\ lastOp' = Op("ht_remove", key, NoValue,
                              IF r.ret THEN "true" ELSE "false", NoValue,
                              "none", "none", ht.count)
    /\ given' = NoneGiven
    /\ distinctPuts' = FALSE
    /\ UNCHANGED <<allocFailed, initial_capacity>>

\* ht_clear(ht);
Clear ==
    /\ UNCHANGED mapVars
    /\ UNCHANGED heap
    /\ proc = "running"
    /\ ht # NULL
    /\ ht' = ht_clear(ht)
    /\ lastOp' = Op("ht_clear", 0, NoValue, "void", NoValue, "none", "none", ht.count)
    /\ given' = NoneGiven
    /\ distinctPuts' = FALSE
    /\ UNCHANGED <<allocFailed, initial_capacity>>

\* ht_destroy(ht); the handle is dropped
Destroy ==
    /\ UNCHANGED mapVars
    /\ UNCHANGED heap
    /\ proc = "running"
    /\ ht # NULL
    /\ ht' = NULL
    /\ lastOp' = Op("ht_destroy", 0, NoValue, "void", NoValue, "none", "none", 0)
    /\ given' = NoneGiven
    /\ distinctPuts' = FALSE
    /\ allocFailed' = FALSE
    /\ initial_capacity' = 0

Next ==
    \/ Create \/ Put \/ Get \/ GetValue \/ Contains \/ Size \/ LoadFactor
    \/ Remove \/ Clear \/ Destroy

Spec == Init /\ [][Next]_vars

(***************************************************************************)
(* The partition map of src/backend/affinity/affinity.c: one static table  *)
(* handle, filled from a file of "key\tvalue\n" lines.  A file is a record *)
(* [opens, lines]: whether fopen succeeds and the pairs fscanf reads.      *)
(* The functions that call malloc or read the file are given as the set of *)
(* results they can have, each result a record [map, ret, read, access]:   *)
(* the handle after the call, what the call returned ("exit" if it called  *)
(* exit), whether it read the file to its end, and what it passed to       *)
(* hash64.c.                                                               *)
(***************************************************************************)
\* the keys of the lines: two keys, so that a file can give a key twice
FileKeys == {KeyPool[1], KeyPool[2]}

\* fscanf reads the value with %d; (affinity_value_t) value of a line "k\t-1"
\* is ValueMinusOne
FileValues == {1, ValueMinusOne}

FileLines == {Entry(k, v) : k \in FileKeys, v \in FileValues}

Files ==
    {[opens |-> FALSE, lines |-> <<>>]} \cup
    {[opens |-> TRUE, lines |-> l] : l \in UNION {[1..n -> FileLines] : n \in 0..MaxLines}}

MapResult(map, ret, read, access) ==
    [map |-> map, ret |-> ret, read |-> read, access |-> access]

\* the while (fscanf(...) == 2) loop of load_partition_map_disk from line i on
RECURSIVE LoadLines(_, _, _)
LoadLines(t, lines, i) ==
    IF i > Len(lines) THEN {MapResult(t, "true", TRUE, "table")}
    ELSE LET key   == lines[i].key
             value == lines[i].value
         IN  UNION {
               UNION {
                 LET put == ht_put(t, key, value, callocOk, mallocOk)
                 IN  IF value # ht_get_value(put, key)
                     THEN {MapResult(put, "exit", FALSE, "table")}
                     ELSE LoadLines(put, lines, i + 1)
                 : mallocOk \in Outcomes(~ht_get(PutResizeStep(t, callocOk), key, NoValue).ret) }
               : callocOk \in Outcomes(PutResizes(t)) }

\* load_partition_map_disk(filepath), partition_map being map
load_partition_map_disk(map, file) ==
    IF ~file.opens THEN {MapResult(map, "false", FALSE, "none")}
    ELSE IF map = NULL THEN {MapResult(map, "false", FALSE, "none")}
    ELSE LoadLines(map, file.lines, 1)

\* init_partition_map(), partition_map being map
init_partition_map(map, file, mallocOk, callocOk) ==
    IF map # NULL THEN {MapResult(map, "true", FALSE, "none")}
    ELSE LET created == ht_create(INIT_BULK_SIZE, mallocOk, callocOk)
         IN  IF created = NULL THEN {MapResult(NULL, "false", FALSE, "none")}
             ELSE load_partition_map_disk(created, file)

\* faulty variant: 0 returned for a key that is not found
query_partition_zero(map, key) ==
    IF map # NULL /\ ht_get(map, key, ValueMinusOne).ret
    THEN ht_get(map, key, ValueMinusOne).out
    ELSE 0

\* query_partition(key): value starts as -1 and is written by ht_get
query_partition(map, key) ==
    IF map # NULL /\ ht_get(map, key, ValueMinusOne).ret
    THEN ht_get(map, key, ValueMinusOne).out
    ELSE ValueMinusOne

\* cleanup_partition_map(): the handle after the call
cleanup_partition_map(map) == IF map # NULL THEN NULL ELSE map

\* get_affinity_value on a column that is not NULL, partition_map being the
\* table map: the value of the key, 0 when the key is not found
get_affinity_value(map, key) ==
    IF ht_get(map, key, NoValue).ret THEN ht_get(map, key, NoValue).out ELSE 0

\* what ht_get(NULL, key, &value) can leave in get_affinity_value when the
\* read through the NULL handle does not fault: any value
GarbageValues == {0} \cup FileValues

\* ok = init_partition_map();
InitPartitionMap ==
    /\ proc = "running"
    /\ \E file \in IF partition_map = NULL THEN Files ELSE {[opens |-> TRUE, lines |-> <<>>]},
          mallocOk \in Outcomes(partition_map = NULL) :
       \E callocOk \in Outcomes(partition_map = NULL /\ mallocOk) :
       \E r \in init_partition_map(partition_map, file, mallocOk, callocOk) :
          /\ partition_map' = r.map
          /\ mapOp' = MapOp("init_partition_map", 0, r.ret, NoValue,
                            r.read \/ mapOp.loaded, r.access)
          /\ proc' = IF r.ret = "exit" THEN "exited" ELSE "running"
    /\ UNCHANGED tableVars
    /\ UNCHANGED heap

\* ok = load_partition_map_disk(filepath);
LoadPartitionMapDisk ==
    /\ proc = "running"
    /\ \E file \in Files :
       \E r \in load_partition_map_disk(partition_map, file) :
          /\ partition_map' = r.map
          /\ mapOp' = MapOp("load_partition_map_disk", 0, r.ret, NoValue,
                            r.read \/ mapOp.loaded, r.access)
          /\ proc' = IF r.ret = "exit" THEN "exited" ELSE "running"
    /\ UNCHANGED tableVars
    /\ UNCHANGED heap

\* value = query_partition(key);
QueryPartition ==
    /\ proc = "running"
    /\ \E key \in Keys :
          mapOp' = MapOp("query_partition", key, "value",
                         query_partition(partition_map, key), mapOp.loaded,
                         IF partition_map # NULL THEN "table" ELSE "none")
    /\ UNCHANGED <<partition_map, proc>>
    /\ UNCHANGED tableVars
    /\ UNCHANGED heap

\* value = get_affinity_value(relation, tup); isnull and key are what
\* heap_getattr reads from the tuple.  With no table, ht_get reads ht->size
\* through the NULL handle: the call faults or goes on with any value
GetAffinityValue ==
    /\ proc = "running"
    /\ \E isnull \in BOOLEAN :
          IF isnull
          THEN /\ mapOp' = MapOp("get_affinity_value", 0, "value", ValueMinusOne,
                                 mapOp.loaded, "none")
               /\ UNCHANGED proc
          ELSE \E key \in Keys :
                 IF partition_map # NULL
                 THEN /\ mapOp' = MapOp("get_affinity_value", key, "value",
                                        get_affinity_value(partition_map, key),
                                        mapOp.loaded, "table")
                      /\ UNCHANGED proc
                 ELSE \/ /\ mapOp' = MapOp("get_affinity_value", key, "fault",
                                           NoValue, mapOp.loaded, "NULL")
                         /\ proc' = "crashed"
                      \/ \E garbage \in GarbageValues :
                            /\ mapOp' = MapOp("get_affinity_value", key, "value",
                                              garbage, mapOp.loaded, "NULL")
                            /\ UNCHANGED proc
    /\ UNCHANGED partition_map
    /\ UNCHANGED tableVars
    /\ UNCHANGED heap

\* cleanup_partition_map();
CleanupPartitionMap ==
    /\ proc = "running"
    /\ partition_map' = cleanup_partition_map(partition_map)
    /\ mapOp' = MapOp("cleanup_partition_map", 0, "void", NoValue, FALSE,
                      IF partition_map # NULL THEN "table" ELSE "none")
    /\ UNCHANGED proc
    /\ UNCHANGED tableVars
    /\ UNCHANGED heap

NextMap ==
    \/ InitPartitionMap \/ LoadPartitionMapDisk \/ QueryPartition
    \/ GetAffinityValue \/ CleanupPartitionMap

SpecMap == Init /\ [][NextMap]_vars

(***************************************************************************)
(* Callers that may ask ht_create for any bucket count, 0 included.        *)
(* calloc(0, ...) returns NULL or a pointer to no element; with the        *)
(* latter ht_create returns a table of size 0, on which hash() computes    *)
(* h % 0.  That division is undefined: the call faults, or goes on with an *)
(* index that is not one of the bucket array.                              *)
(***************************************************************************)
AnyCaps == 0..MaxInitCap

\* the functions that start by computing hash(key, ht->size)
IndexOps == {"ht_put", "ht_get", "ht_get_value", "ht_contains", "ht_remove"}

\* HashTable *ht = ht_create(size); for any size
CreateAny ==
    /\ UNCHANGED mapVars
    /\ UNCHANGED heap
    /\ proc = "running"
    /\ ht = NULL
    /\ \E size \in AnyCaps, mallocOk \in BOOLEAN, callocOk \in BOOLEAN :
          /\ ht' = ht_create(size, mallocOk, callocOk)
          /\ lastOp' = Op("ht_create", 0, NoValue,
                          IF ht' = NULL THEN "NULL" ELSE "table", NoValue,
                          "none", IF ht' = NULL THEN "failed" ELSE "done", 0)
          /\ given' = NoneGiven
          /\ distinctPuts' = (ht' # NULL)
          /\ allocFailed' = FALSE
          /\ initial_capacity' = IF ht' = NULL THEN 0 ELSE size

\* a call of one of IndexOps on a table of size 0: h % 0 is evaluated
UndefinedIndex ==
    /\ proc = "running"
    /\ ht # NULL
    /\ ht.size = 0
    /\ \E op \in IndexOps, key \in Keys :
          \/ /\ lastOp' = Op(op, key, NoValue, "fault", NoValue, "none", "none", ht.count)
             /\ proc' = "crashed"
          \/ /\ lastOp' = Op(op, key, NoValue, "undefined", NoValue, "none", "none", ht.count)
             /\ UNCHANGED proc
    /\ UNCHANGED <<ht, given, distinctPuts, allocFailed, initial_capacity, partition_map,
                 mapOp, heap>>

NextAny ==
    \/ CreateAny \/ Put \/ Get \/ GetValue \/ Contains \/ Size \/ LoadFactor
    \/ Remove \/ Clear \/ Destroy \/ UndefinedIndex

SpecAny == Init /\ [][NextAny]_vars

(***************************************************************************)
(* The table operations at the level of pointers, on the heap record: the  *)
(* same code as above, with every malloc, free and dereference of an entry *)
(* node written out.                                                       *)
(***************************************************************************)
\* a dereference of the entry pointer p (p # 0): a fault unless the node is live
Touch(h, p) ==
    IF h.node[p].state = "live" \/ h.fault # "none" THEN h
    ELSE [h EXCEPT !.fault = "use_after_free"]

\* free(p) for an entry node: what the node held is gone
FreeNode(h, p) ==
    IF h.fault # "none" THEN h
    ELSE IF h.node[p].state = "live"
    THEN [h EXCEPT !.node[p] = [NoNode EXCEPT !.state = "freed"],
                   !.freed = @ \cup {p}]
    ELSE [h EXCEPT !.fault = "double_free"]

\* the node malloc(sizeof(Entry)) returns: one never returned before
NewNode(h) == CHOOSE n \in NodeIds :
                 /\ h.node[n].state = "unused"
                 /\ \A m \in NodeIds : h.node[m].state = "unused" => n <= m

\* the heap when a call starts: nothing freed by it yet
Called(h, op) == [h EXCEPT !.op = op, !.freed = {}, !.arraysFreed = 0]

\* ht_create
heap_create(size, mallocOk, callocOk) ==
    IF ~mallocOk \/ ~callocOk THEN Called(NoHeap, "ht_create")
    ELSE [Called(NoHeap, "ht_create") EXCEPT
             !.table = "live", !.buckets = [i \in 1..size |-> 0],
             !.size = size, !.arrays = 1]

\* ht_resize, the while loop: current is relinked at the head of its new chain
RECURSIVE HeapRelinkChain(_, _)
HeapRelinkChain(h, current) ==
    IF current = 0 THEN h
    ELSE LET t         == Touch(h, current)
             next      == h.node[current].next
             new_index == hash(h.node[current].key, h.size)
         IN  IF t.fault # "none" THEN t
             ELSE HeapRelinkChain(
                    [h EXCEPT !.node[current].next = h.buckets[new_index + 1],
                              !.buckets[new_index + 1] = current,
                              !.count = @ + 1],
                    next)

\* ht_resize, the for loop over old_buckets from index i on
RECURSIVE HeapRelinkFrom(_, _, _)
HeapRelinkFrom(h, old_buckets, i) ==
    IF i > Len(old_buckets) \/ h.fault # "none" THEN h
    ELSE HeapRelinkFrom(HeapRelinkChain(h, old_buckets[i]), old_buckets, i + 1)

\* ht_resize: the new array is allocated, the nodes relinked, the old array freed
heap_resize(h, new_size, callocOk) ==
    IF ~callocOk THEN h
    ELSE LET fresh == [h EXCEPT !.buckets = [i \in 1..new_size |-> 0],
                                !.size = new_size, !.count = 0, !.arrays = @ + 1]
             moved == HeapRelinkFrom(fresh, h.buckets, 1)
         IN  [moved EXCEPT !.arrays = @ - 1, !.arraysFreed = @ + 1]

\* the scan of a chain for key: the heap (with the fault the scan met, if any)
\* and the node that holds key, 0 if none
RECURSIVE HeapScan(_, _, _)
HeapScan(h, current, key) ==
    IF current = 0 THEN [heap |-> h, at |-> 0]
    ELSE LET t == Touch(h, current)
         IN  IF t.fault # "none" THEN [heap |-> t, at |-> 0]
             ELSE IF h.node[current].key = key THEN [heap |-> h, at |-> current]
             ELSE HeapScan(h, h.node[current].next, key)

\* whether ht_put resizes
HeapPutResizes(h) == AboveThreshold([num |-> h.count, den |-> h.size])

\* ht_put
heap_put(h, key, value, callocOk, mallocOk) ==
    LET r     == IF HeapPutResizes(h) THEN heap_resize(h, h.size * 2, callocOk) ELSE h
        index == hash(key, r.size)
        scan  == HeapScan(r, r.buckets[index + 1], key)
    IN  IF scan.heap.fault # "none" THEN scan.heap
        ELSE IF scan.at # 0 THEN [r EXCEPT !.node[scan.at].value = value]
        ELSE IF ~mallocOk THEN r
        ELSE LET new_entry == NewNode(r)
             IN  [r EXCEPT !.node[new_entry] =
                               [key |-> key, value |-> value,
                                next |-> r.buckets[index + 1], state |-> "live"],
                           !.buckets[index + 1] = new_entry,
                           !.count = @ + 1]

\* ht_get: the heap after the scan
heap_get(h, key) == HeapScan(h, h.buckets[hash(key, h.size) + 1], key).heap

\* ht_remove, the while loop from current on, prev being the node before it
RECURSIVE HeapRemoveFrom(_, _, _, _, _)
HeapRemoveFrom(h, index, current, prev, key) ==
    IF current = 0 THEN h
    ELSE LET t == Touch(h, current)
         IN  IF t.fault # "none" THEN t
             ELSE IF h.node[current].key = key
             THEN LET unlinked ==
                        IF prev = 0
                        THEN [h EXCEPT !.buckets[index + 1] = h.node[current].next]
                        ELSE [h EXCEPT !.node[prev].next = h.node[current].next]
                  IN  [FreeNode(unlinked, current) EXCEPT !.count = @ - 1]
             ELSE HeapRemoveFrom(h, index, h.node[current].next, current, key)

\* ht_remove
heap_remove(h, key) ==
    LET index == hash(key, h.size)
    IN  HeapRemoveFrom(h, index, h.buckets[index + 1], 0, key)

\* the inner loop of ht_clear and ht_destroy: every node of a chain is freed
RECURSIVE HeapFreeChain(_, _)
HeapFreeChain(h, current) ==
    IF current = 0 THEN h
    ELSE LET t == Touch(h, current)
         IN  IF t.fault # "none" THEN t
             ELSE HeapFreeChain(FreeNode(h, current), h.node[current].next)

\* faulty variant: the bucket heads keep pointing to the freed chains
RECURSIVE HeapClearFrom_keepHeads(_, _)
HeapClearFrom_keepHeads(h, i) ==
    IF i > h.size \/ h.fault # "none" THEN h
    ELSE HeapClearFrom_keepHeads(HeapFreeChain(h, h.buckets[i]), i + 1)

\* ht_clear, the for loop from bucket i on
RECURSIVE HeapClearFrom(_, _)
HeapClearFrom(h, i) ==
    IF i > h.size \/ h.fault # "none" THEN h
    ELSE HeapClearFrom([HeapFreeChain(h, h.buckets[i]) EXCEPT !.buckets[i] = 0], i + 1)

\* ht_clear
heap_clear(h) == [HeapClearFrom(h, 1) EXCEPT !.count = 0]

\* ht_destroy, the for loop from bucket i on
RECURSIVE HeapDestroyFrom(_, _)
HeapDestroyFrom(h, i) ==
    IF i > h.size \/ h.fault # "none" THEN h
    ELSE HeapDestroyFrom(HeapFreeChain(h, h.buckets[i]), i + 1)

\* ht_destroy: the chains, then the bucket array, then the structure
heap_destroy(h) ==
    LET emptied == HeapDestroyFrom(h, 1)
    IN  IF emptied.fault # "none" THEN emptied
        ELSE [emptied EXCEPT !.arrays = @ - 1, !.arraysFreed = @ + 1,
                             !.buckets = <<>>, !.table = "freed"]

\* malloc can still return a node
NodeLeft(h) == \E n \in NodeIds : h.node[n].state = "unused"

HeapLive == proc = "running" /\ heap.table = "live" /\ heap.fault = "none"

HeapFrame ==
    UNCHANGED <<ht, lastOp, given, distinctPuts, allocFailed, initial_capacity,
                partition_map, mapOp, proc>>

\* ht = ht_create(size); the memory of the table before is forgotten
HeapCreate ==
    /\ proc = "running"
    /\ heap.table # "live"
    /\ heap.fault = "none"
    /\ \E size \in InitCaps, mallocOk \in BOOLEAN :
       \E callocOk \in Outcomes(mallocOk) :
          heap' = heap_create(size, mallocOk, callocOk)
    /\ HeapFrame

\* ht_put(ht, key, value);
HeapPut ==
    /\ HeapLive
    /\ NodeLeft(heap)
    /\ \E key \in Keys, value \in Values :
       \E callocOk \in Outcomes(HeapPutResizes(heap)), mallocOk \in BOOLEAN :
          heap' = heap_put(Called(heap, "ht_put"), key, value, callocOk, mallocOk)
    /\ HeapFrame

\* ht_get(ht, key, &value);
HeapGet ==
    /\ HeapLive
    /\ \E key \in Keys : heap' = heap_get(Called(heap, "ht_get"), key)
    /\ HeapFrame

\* ht_remove(ht, key);
HeapRemove ==
    /\ HeapLive
    /\ \E key \in Keys : heap' = heap_remove(Called(heap, "ht_remove"), key)
    /\ HeapFrame

\* ht_clear(ht);
HeapClear ==
    /\ HeapLive
    /\ heap' = heap_clear(Called(heap, "ht_clear"))
    /\ HeapFrame

\* ht_destroy(ht);
HeapDestroy ==
    /\ HeapLive
    /\ heap' = heap_destroy(Called(heap, "ht_destroy"))
    /\ HeapFrame

NextHeap ==
    \/ HeapCreate \/ HeapPut \/ HeapGet \/ HeapRemove \/ HeapClear \/ HeapDestroy

SpecHeap == Init /\ [][NextHeap]_vars

(***************************************************************************)
(* Helpers of the properties.                                              *)
(***************************************************************************)
Found(value) == [ret |-> TRUE, out |-> value]
NotFound == [ret |-> FALSE, out |-> NoValue]

\* what ht_get(k) reports on table t, the caller's variable holding NoValue
Lookup(t, k) == ht_get(t, k, NoValue)
Present(t, k) == Lookup(t, k).ret

RECURSIVE SumLen(_, _)
SumLen(buckets, n) == IF n = 0 THEN 0 ELSE Len(buckets[n]) + SumLen(buckets, n - 1)

\* all entries linked in the chains of t, as (bucket index, position) pairs
Slots(t) == {<<i, p>> \in (1..Len(t.buckets)) \X (1..(NumKeys + 1)) : p <= Len(t.buckets[i])}

\* structural invariants of a table: the bucket array has size buckets, count
\* is the number of linked entries, no key is linked twice, and every entry
\* sits in the bucket of its hash
WellFormed(t) ==
    /\ DOMAIN t.buckets = 1..t.size
    /\ t.count = SumLen(t.buckets, t.size)
    /\ \A a, b \in Slots(t) :
          t.buckets[a[1]][a[2]].key = t.buckets[b[1]][b[2]].key => a = b
    /\ \A a \in Slots(t) : hash(t.buckets[a[1]][a[2]].key, t.size) = a[1] - 1

(***************************************************************************)
(* C1.  After any sequence of ht_put calls with pairwise distinct keys on  *)
(* a freshly created table, with no allocation failure and whatever        *)
(* resizes happened, ht_get finds every key that was put, with the value   *)
(* given for it, and finds no key that was never put.                      *)
(***************************************************************************)
C1_DistinctPutsThenGet ==
    (ht # NULL /\ distinctPuts) =>
        \A k \in Keys :
            Lookup(ht, k) = IF given[k] # NoValue THEN Found(given[k]) ELSE NotFound

\* every key of the model has been put, the last put after a resize
C1_Witness ==
    /\ ht # NULL
    /\ distinctPuts
    /\ \A k \in Keys : given[k] # NoValue
    /\ lastOp.op = "ht_put"
    /\ lastOp.resize = "done"

(***************************************************************************)
(* C2.  An ht_put whose resize succeeds doubles the capacity; the resize   *)
(* leaves count as it was and keeps every key retrievable with its value   *)
(* (after the put: with its last-written value, which for the key of the   *)
(* put is the new value).  It holds at every threshold crossing.           *)
(***************************************************************************)
C2_Step ==
    (lastOp'.op = "ht_put" /\ lastOp'.resize = "done") =>
        LET resized == ht_resize(ht, ht.size * 2, TRUE)
        IN  /\ ht'.size = 2 * ht.size
            /\ resized.size = 2 * ht.size
            /\ resized.count = ht.count
            /\ \A k \in Keys : Lookup(resized, k) = Lookup(ht, k)
            /\ ht'.count = ht.count + (IF lastOp'.node = "done" THEN 1 ELSE 0)
            /\ \A k \in Keys :
                  Present(ht, k) =>
                      Lookup(ht', k) = IF k = lastOp'.key THEN Found(lastOp'.value)
                                       ELSE Lookup(ht, k)

C2_ResizePreserves == [][C2_Step]_vars

\* a put that resized a table in which two keys shared a chain, ending with
\* every key of the model stored in twice the initial capacity at least
C2_Witness ==
    /\ ht # NULL
    /\ lastOp.op = "ht_put"
    /\ lastOp.resize = "done"
    /\ lastOp.count0 >= 2
    /\ ht.count = NumKeys
    /\ ht.size >= 4

(***************************************************************************)
(* C3.  As stated: with no allocation failure, count / capacity is at most *)
(* 0.75 right after every ht_put.                                          *)
(***************************************************************************)
C3_LoadAtMostThreshold ==
    (ht # NULL /\ lastOp.op = "ht_put" /\ ~allocFailed) =>
        ht.count * 4 <= ht.size * 3

(***************************************************************************)
(* C3, amended.  With no allocation failure, right after every ht_put the  *)
(* entries other than the one this put added are at most 0.75 x capacity:  *)
(* the threshold is tested before the insertion, so the load factor can    *)
(* exceed 0.75 by the entry just added and no more.                        *)
(***************************************************************************)
C3_LoadBeforeInsertAtMostThreshold ==
    (ht # NULL /\ lastOp.op = "ht_put" /\ ~allocFailed) =>
        /\ lastOp.count0 * 4 <= ht.size * 3
        /\ ht.count = lastOp.count0 + (IF lastOp.node = "done" THEN 1 ELSE 0)

\* a put that resized and then inserted, leaving count / capacity above 0.75
C3_Witness ==
    /\ ht # NULL
    /\ lastOp.op = "ht_put"
    /\ ~allocFailed
    /\ lastOp.resize = "done"
    /\ lastOp.node = "done"
    /\ ht.count * 4 > ht.size * 3

(***************************************************************************)
(* C4.  As stated: in every table state, ht_put(k, v1) followed by         *)
(* ht_put(k, v2) makes ht_get(k) return (true, v2), and ht_size() after    *)
(* the second put is ht_size() after the first.                            *)
(***************************************************************************)
SecondPutOfKey ==
    /\ lastOp.op = "ht_put"
    /\ lastOp'.op = "ht_put"
    /\ lastOp'.key = lastOp.key

C4_UpsertStep ==
    SecondPutOfKey =>
        /\ Lookup(ht', lastOp'.key) = Found(lastOp'.value)
        /\ ht_size(ht') = ht_size(ht)

C4_UpsertStoredStep ==
    (SecondPutOfKey /\ lastOp.node # "failed") =>
        /\ Lookup(ht, lastOp.key) = Found(lastOp.value)
        /\ Lookup(ht', lastOp'.key) = Found(lastOp'.value)
        /\ ht_size(ht') = ht_size(ht)

C5_RemoveStep ==
    (lastOp'.op = "ht_remove") =>
        LET k == lastOp'.key
        IN  /\ Present(ht, k) =>
                  /\ lastOp'.ret = "true"
                  /\ ht_size(ht') = ht_size(ht) - 1
                  /\ Lookup(ht', k) = NotFound
            /\ ~Present(ht, k) =>
                  /\ lastOp'.ret = "false"
                  /\ ht_size(ht') = ht_size(ht)
            /\ (lastOp.op = "ht_remove" /\ lastOp.key = k /\ lastOp.ret = "true") =>
                  lastOp'.ret = "false"

C5_RemovalLaw == [][C5_RemoveStep]_vars

\* a key was removed from a table that still holds other keys
C5_Witness ==
    /\ ht # NULL
    /\ lastOp.op = "ht_remove"
    /\ lastOp.ret = "true"
    /\ lastOp.count0 = NumKeys
    /\ ht.count = NumKeys - 1
    /\ ~Present(ht, lastOp.key)

(***************************************************************************)
(* C6.  After ht_clear, ht_size() is 0, every bucket is empty, every key   *)
(* is not found, and the capacity is what it was before.                   *)
(***************************************************************************)
C6_ClearStep ==
    (lastOp'.op = "ht_clear") =>
        /\ ht_size(ht') = 0
        /\ DOMAIN ht'.buckets = 1..ht'.size
        /\ \A i \in 1..ht'.size : ht'.buckets[i] = <<>>
        /\ \A k \in Keys : Lookup(ht', k) = NotFound
        /\ ht'.size = ht.size

C6_ClearLaw == [][C6_ClearStep]_vars

\* a table that had grown and held every key of the model was cleared
C6_Witness ==
    /\ ht # NULL
    /\ lastOp.op = "ht_clear"
    /\ lastOp.count0 = NumKeys
    /\ ht.size >= 4
    /\ ht.count = 0

(***************************************************************************)
(* C7.  As stated: ht_put doubles the capacity exactly when the insertion  *)
(* it is about to make would bring count / capacity above 0.75, and leaves *)
(* the capacity unchanged in every other call (a put that only overwrites  *)
(* included).  Calls in which an allocation fails are left aside.          *)
(***************************************************************************)
PutWithoutFailure ==
    /\ lastOp'.op = "ht_put"
    /\ lastOp'.resize # "failed"
    /\ lastOp'.node # "failed"

InsertWouldExceed ==
    /\ ~Present(ht, lastOp'.key)
    /\ (ht.count + 1) * 4 > ht.size * 3

C7_ResizeIffInsertWouldExceedStep ==
    PutWithoutFailure =>
        /\ InsertWouldExceed => ht'.size = 2 * ht.size
        /\ ~InsertWouldExceed => ht'.size = ht.size

C7_ResizeIffInsertWouldExceed == [][C7_ResizeIffInsertWouldExceedStep]_vars

(***************************************************************************)
(* C7, amended.  ht_put doubles the capacity, before the insertion proper, *)
(* exactly when count / capacity is already above 0.75 when the call is    *)
(* made, whether the key is new or present, and the bucket array can be    *)
(* allocated; in every other call the capacity is left unchanged.  The key *)
(* is then placed in its bucket for the capacity after the call.           *)
(***************************************************************************)
C7_ResizeIffAlreadyAboveStep ==
    (lastOp'.op = "ht_put") =>
        LET above == ht.count * 4 > ht.size * 3
            index == hash(lastOp'.key, ht'.size)
        IN  /\ (lastOp'.resize # "none") <=> above
            /\ (above /\ lastOp'.resize = "done") => ht'.size = 2 * ht.size
            /\ ~(above /\ lastOp'.resize = "done") => ht'.size = ht.size
            /\ Present(ht', lastOp'.key) =>
                  Scan(ht'.buckets[index + 1], lastOp'.key) # 0

C7_ResizeIffAlreadyAbove == [][C7_ResizeIffAlreadyAboveStep]_vars

\* a put that only overwrote a key and still doubled the capacity
C7_Witness ==
    /\ ht # NULL
    /\ lastOp.op = "ht_put"
    /\ lastOp.resize = "done"
    /\ lastOp.node = "none"
    /\ ht.count = lastOp.count0
    /\ ht.size >= 2

(***************************************************************************)
(* C8.  Every allocation failure reaches the caller as a failure result:   *)
(* an ht_put in which the entry node or the resize bucket array could not  *)
(* be allocated returns something else than a successful ht_put returns    *)
(* (which is "void"), and a failed ht_create returns no table.             *)
(***************************************************************************)
C8_AllocationFailureReturned ==
    /\ (lastOp.op = "ht_put" /\ (lastOp.node = "failed" \/ lastOp.resize = "failed")) =>
          lastOp.ret # "void"
    /\ (lastOp.op = "ht_create" /\ lastOp.node = "failed") =>
          (lastOp.ret = "NULL" /\ ht = NULL)

(***************************************************************************)
(* C9.  As stated: when the bucket-array allocation of a resize fails, the *)
(* table keeps its bucket array, capacity, count and every stored key and  *)
(* value, and the ht_put still completes its insert or update against the  *)
(* old capacity.                                                           *)
(***************************************************************************)
PutWithFailedResize == lastOp'.op = "ht_put" /\ lastOp'.resize = "failed"

\* nothing but the put itself touched the table: capacity kept, every bucket
\* but the key's own kept, every other key as before, and count moved only
\* by the entry the put added
ResizeFailureKeepsTable ==
    LET key   == lastOp'.key
        index == hash(key, ht.size)
    IN  /\ ht'.size = ht.size
        /\ DOMAIN ht'.buckets = DOMAIN ht.buckets
        /\ \A i \in DOMAIN ht.buckets : i # index + 1 => ht'.buckets[i] = ht.buckets[i]
        /\ \A k \in Keys \ {key} : Lookup(ht', k) = Lookup(ht, k)
        /\ ht'.count = ht.count + (IF lastOp'.node = "done" THEN 1 ELSE 0)

C9_FailedResizeStep ==
    PutWithFailedResize =>
        /\ ResizeFailureKeepsTable
        /\ Lookup(ht', lastOp'.key) = Found(lastOp'.value)

C9_FailedResizePutCompletes == [][C9_FailedResizeStep]_vars

(***************************************************************************)
(* C9, amended.  When the bucket-array allocation of a resize fails, the   *)
(* table keeps its bucket array, capacity, count and every stored key and  *)
(* value, and the ht_put still carries out its update, or its insert when  *)
(* the entry node can be allocated, against the old capacity (the load     *)
(* factor may then exceed 0.75); when the entry node cannot be allocated   *)
(* either, the key stays absent.                                           *)
(***************************************************************************)
C9_FailedResizeNodeStep ==
    PutWithFailedResize =>
        LET key   == lastOp'.key
            index == hash(key, ht.size)
        IN  /\ ResizeFailureKeepsTable
            /\ Present(ht, key) =>
                  /\ lastOp'.node = "none"
                  /\ Lookup(ht', key) = Found(lastOp'.value)
                  /\ Len(ht'.buckets[index + 1]) = Len(ht.buckets[index + 1])
            /\ (~Present(ht, key) /\ lastOp'.node = "done") =>
                  /\ Lookup(ht', key) = Found(lastOp'.value)
                  /\ ht'.buckets[index + 1] =
                        <<Entry(key, lastOp'.value)>> \o ht.buckets[index + 1]
            /\ (~Present(ht, key) /\ lastOp'.node = "failed") =>
                  /\ Lookup(ht', key) = NotFound
                  /\ ht' = ht

C9_FailedResizePutProceeds == [][C9_FailedResizeNodeStep]_vars

\* a put inserted a new key although its resize failed, and the load factor
\* is left above 0.75 by more than the entry added
C9_Witness ==
    /\ ht # NULL
    /\ lastOp.op = "ht_put"
    /\ lastOp.resize = "failed"
    /\ lastOp.node = "done"
    /\ Lookup(ht, lastOp.key) = Found(lastOp.value)
    /\ lastOp.count0 * 4 > ht.size * 3

(***************************************************************************)
(* C10.  When ht_put cannot allocate the entry node of a new key, count    *)
(* and what ht_get reports for every key are what they were before the     *)
(* call, the new key stays absent, and the table is still well formed;     *)
(* whatever allocations failed or succeeded before, and whether or not the *)
(* call resized first.                                                     *)
(***************************************************************************)
C10_FailedNodeStep ==
    (lastOp'.op = "ht_put" /\ lastOp'.node = "failed") =>
        /\ ~Present(ht, lastOp'.key)
        /\ ht'.count = ht.count
        /\ \A k \in Keys : Lookup(ht', k) = Lookup(ht, k)
        /\ Lookup(ht', lastOp'.key) = NotFound
        /\ WellFormed(ht)
        /\ WellFormed(ht')

C10_FailedNodeKeepsData == [][C10_FailedNodeStep]_vars

\* the entry node could not be allocated in a put that had just resized a
\* table holding keys
C10_Witness ==
    /\ ht # NULL
    /\ lastOp.op = "ht_put"
    /\ lastOp.node = "failed"
    /\ lastOp.resize = "done"
    /\ ht.count >= 2
    /\ ht.count = lastOp.count0
    /\ ~Present(ht, lastOp.key)

(***************************************************************************)
(* Further helpers of the properties.                                      *)
(***************************************************************************)
\* the entries of table t, whichever chain they are linked in
Entries(t) == {t.buckets[a[1]][a[2]] : a \in Slots(t)}

\* no key is held by two linked entries
KeysUnique(t) ==
    \A a, b \in Slots(t) :
        t.buckets[a[1]][a[2]].key = t.buckets[b[1]][b[2]].key => a = b

\* count is the number of linked entries, size the length of the bucket array
CountersMatch(t) ==
    /\ DOMAIN t.buckets = 1..t.size
    /\ t.count = Cardinality(Slots(t))

\* every entry is linked in the bucket of its hash for the current size
EntriesPlaced(t) ==
    \A a \in Slots(t) : hash(t.buckets[a[1]][a[2]].key, t.size) = a[1] - 1

LookupOps == {"ht_get", "ht_contains", "ht_get_value"}
ReadOps == LookupOps \cup {"ht_size", "ht_load_factor"}

Bool(b) == IF b THEN "true" ELSE "false"

(***************************************************************************)
(* C14.  Whenever a lookup is made, for every key the three lookups agree: *)
(* ht_contains is the found flag of ht_get; ht_get_value is the value      *)
(* ht_get reports when the key is found and (affinity_value_t) -1 when it  *)
(* is not; and a call of any of the three leaves the table as it was.      *)
(***************************************************************************)
LookupsAgree(t) ==
    \A k \in Keys :
        LET got == ht_get(t, k, NoValue)
        IN  /\ ht_contains(t, k) = got.ret
            /\ ht_get_value(t, k) = IF got.ret THEN got.out ELSE ValueMinusOne

C14_LookupStep ==
    lastOp'.op \in LookupOps =>
        LET got == ht_get(ht, lastOp'.key, NoValue)
        IN  /\ ht' = ht
            /\ LookupsAgree(ht)
            /\ lastOp'.op = "ht_contains" => lastOp'.ret = Bool(got.ret)
            /\ lastOp'.op = "ht_get_value" =>
                  lastOp'.out = IF got.ret THEN got.out ELSE ValueMinusOne

C14_LookupFormsAgree == [][C14_LookupStep]_vars

\* ht_get_value was called for a key that is not in a table holding others
C14_Witness ==
    /\ ht # NULL
    /\ lastOp.op = "ht_get_value"
    /\ lastOp.out = ValueMinusOne
    /\ ~ht_contains(ht, lastOp.key)
    /\ ht.count >= 2

(***************************************************************************)
(* C15.  Only ht_put changes the capacity: ht_get, ht_contains,            *)
(* ht_get_value, ht_size and ht_load_factor leave the whole table as it    *)
(* was, and ht_remove and ht_clear keep the capacity, whatever the load    *)
(* factor.                                                                 *)
(***************************************************************************)
C15_FrameStep ==
    /\ lastOp'.op \in ReadOps => ht' = ht
    /\ lastOp'.op \in {"ht_remove", "ht_clear"} => ht'.size = ht.size
    /\ (ht # NULL /\ ht' # NULL /\ ht'.size # ht.size) => lastOp'.op = "ht_put"

C15_CapacityChangesOnlyInPut == [][C15_FrameStep]_vars

\* a table above the threshold was cleared and kept more than one bucket
C15_Witness ==
    /\ ht # NULL
    /\ lastOp.op = "ht_clear"
    /\ lastOp.count0 * 4 > ht.size * 3
    /\ ht.size >= 2

(***************************************************************************)
(* C16.  In every reachable state no key occurs in two entries, whatever   *)
(* puts, removes, clears, resizes and allocation failures led to it; and a *)
(* put on an existing key has overwritten the value and added no entry.    *)
(***************************************************************************)
C16_KeysUnique ==
    ht # NULL =>
        /\ KeysUnique(ht)
        /\ (lastOp.op = "ht_put" /\ lastOp.node = "none") =>
              /\ ht.count = lastOp.count0
              /\ \E e \in Entries(ht) : e = Entry(lastOp.key, lastOp.value)

\* a put overwrote a key in a table whose resize had just moved the entries
C16_Witness ==
    /\ ht # NULL
    /\ lastOp.op = "ht_put"
    /\ lastOp.node = "none"
    /\ lastOp.resize = "done"
    /\ ht.count = NumKeys
    /\ allocFailed

(***************************************************************************)
(* C17.  After every call count is the number of entries linked in the     *)
(* chains and size is the length of the bucket array, resizes (which       *)
(* recount from 0) and failed allocations included.                        *)
(***************************************************************************)
C17_CountersMatch == ht # NULL => CountersMatch(ht)

\* a remove on a table that had been resized, after an allocation failure
C17_Witness ==
    /\ ht # NULL
    /\ lastOp.op = "ht_remove"
    /\ lastOp.ret = "true"
    /\ allocFailed
    /\ ht.size >= 4
    /\ ht.count >= 1

(***************************************************************************)
(* C18.  In every reachable state every entry linked in bucket i has       *)
(* hash(key) mod capacity = i, after a resize too, so that the lookup,     *)
(* which scans the key's own bucket only, finds every entry.               *)
(***************************************************************************)
C18_EntriesPlaced ==
    ht # NULL =>
        /\ EntriesPlaced(ht)
        /\ \A e \in Entries(ht) : ht_get(ht, e.key, NoValue) = Found(e.value)

\* a resize has spread the entries over several buckets
C18_Witness ==
    /\ ht # NULL
    /\ lastOp.op = "ht_put"
    /\ lastOp.resize = "done"
    /\ lastOp.count0 >= 2
    /\ Cardinality({a[1] : a \in Slots(ht)}) >= 2

(***************************************************************************)
(* C20.  When ht_put inserts a key that is not present, the new entry is   *)
(* the head of its bucket's chain, the entries already in that chain       *)
(* follow it in their order, every other chain is unchanged (if the call   *)
(* did not resize), and count grows by one.                                *)
(***************************************************************************)
C20_InsertStep ==
    (lastOp'.op = "ht_put" /\ lastOp'.node = "done") =>
        LET key   == lastOp'.key
            index == hash(key, ht'.size)
            \* the chains the insertion found: after the resize, if any
            found == IF lastOp'.resize = "done"
                     THEN ht_resize(ht, ht.size * 2, TRUE).buckets ELSE ht.buckets
        IN  /\ ~ht_contains(ht, key)
            /\ Head(ht'.buckets[index + 1]) = Entry(key, lastOp'.value)
            /\ Tail(ht'.buckets[index + 1]) = found[index + 1]
            /\ lastOp'.resize # "done" =>
                  /\ Tail(ht'.buckets[index + 1]) = ht.buckets[index + 1]
                  /\ \A i \in DOMAIN ht.buckets :
                        i # index + 1 => ht'.buckets[i] = ht.buckets[i]
            /\ ht'.count = ht.count + 1

C20_InsertAtHead == [][C20_InsertStep]_vars

\* a key was inserted, without a resize, in front of a chain of two entries
C20_Witness ==
    /\ ht # NULL
    /\ lastOp.op = "ht_put"
    /\ lastOp.node = "done"
    /\ lastOp.resize # "done"
    /\ \E i \in DOMAIN ht.buckets :
          /\ Len(ht.buckets[i]) >= 3
          /\ Head(ht.buckets[i]).key = lastOp.key

(***************************************************************************)
(* C11.  After any sequence of init_partition_map, load_partition_map_disk,*)
(* get_affinity_value, cleanup_partition_map and query_partition calls,    *)
(* query_partition(key) has returned the value of the entry the partition  *)
(* map holds for key when the map exists and holds one, and                *)
(* (affinity_value_t) -1 when the key is absent or there is no map.        *)
(***************************************************************************)
C11_QueryContract ==
    mapOp.op = "query_partition" =>
        LET held == IF partition_map = NULL THEN {}
                    ELSE {e \in Entries(partition_map) : e.key = mapOp.key}
        IN  IF held # {}
            THEN \E e \in held : mapOp.out = e.value
            ELSE mapOp.out = ValueMinusOne

\* a query found the value of a key in a map loaded from a full file
C11_Witness ==
    /\ mapOp.op = "query_partition"
    /\ partition_map # NULL
    /\ partition_map.count = Cardinality(FileKeys)
    /\ mapOp.out # ValueMinusOne
    /\ mapOp.loaded

(***************************************************************************)
(* C12.  init_partition_map returns true only if the partition map exists  *)
(* and its data file has been read into it: a call made after an earlier   *)
(* call failed to open the file does not report success.                   *)
(***************************************************************************)
C12_InitTrueOnlyIfLoaded ==
    (mapOp.op = "init_partition_map" /\ mapOp.ret = "true") =>
        (partition_map # NULL /\ mapOp.loaded)

(***************************************************************************)
(* C13.  No call of affinity.c passes to hash64.c a table that does not    *)
(* exist: every use of partition_map is guarded by a test of the handle.   *)
(***************************************************************************)
C13_NoAccessWithoutTable == mapOp.access # "NULL"

(***************************************************************************)
(* C19.  For every table ht_create returns, whatever bucket count was      *)
(* asked for, and in every later state of it, the bucket index of every    *)
(* key is defined and lies in 0 .. size-1: the size is not 0.              *)
(***************************************************************************)
C19_IndexInRange ==
    ht # NULL =>
        /\ ht.size > 0
        /\ \A k \in Keys : hash(k, ht.size) \in 0..(ht.size - 1)

(***************************************************************************)
(* C21.  Over any sequence of ht_create, ht_put (with resizes and failed   *)
(* allocations), ht_get, ht_remove, ht_clear and ht_destroy: no node is    *)
(* used after it was freed or freed twice; while the table lives, every    *)
(* allocated node that was not freed is linked exactly once, in one chain, *)
(* and the chains end (no cycle); ht_put, resize included, frees no node   *)
(* and at most the old bucket array; nodes are freed by ht_remove,         *)
(* ht_clear and ht_destroy only; and after ht_destroy, or a failed         *)
(* ht_create, no node and no bucket array is left allocated.               *)
(***************************************************************************)
\* the nodes reached from pointer p by following next, at most fuel of them
RECURSIVE ChainOf(_, _, _)
ChainOf(h, p, fuel) ==
    IF p = 0 \/ fuel = 0 THEN <<>>
    ELSE <<p>> \o ChainOf(h, h.node[p].next, fuel - 1)

\* the nodes of the chains of buckets i .. size, one after the other
RECURSIVE LinkedFrom(_, _)
LinkedFrom(h, i) ==
    IF i > Len(h.buckets) THEN <<>>
    ELSE ChainOf(h, h.buckets[i], MaxNodes + 1) \o LinkedFrom(h, i + 1)

LiveNodes(h) == {n \in NodeIds : h.node[n].state = "live"}

FreeingOps == {"ht_remove", "ht_clear", "ht_destroy"}

Owned(h) ==
    LET linked == LinkedFrom(h, 1)
    IN  /\ h.fault = "none"
        /\ h.table = "live" =>
              /\ h.arrays = 1
              /\ Len(h.buckets) = h.size
              /\ Len(linked) = Cardinality(LiveNodes(h))
              /\ {linked[i] : i \in DOMAIN linked} = LiveNodes(h)
        /\ h.table # "live" => (h.arrays = 0 /\ LiveNodes(h) = {})
        /\ h.op = "ht_put" => (h.freed = {} /\ h.arraysFreed <= 1)
        /\ h.freed # {} => h.op \in FreeingOps
        /\ h.arraysFreed > 0 => h.op \in {"ht_put", "ht_destroy"}

C21_EntriesOwned == Owned(heap)

\* a table that was resized twice and had lost a node to ht_remove or
\* ht_clear was destroyed, with every node that malloc can return used
C21_Witness ==
    /\ heap.op = "ht_destroy"
    /\ heap.table = "freed"
    /\ heap.size >= 4
    /\ \A n \in NodeIds : heap.node[n].state = "freed"
    /\ heap.freed # {}
    /\ heap.freed # NodeIds

(***************************************************************************)
(* C22.  For a table created with at least one bucket and while no         *)
(* allocation has failed: after every ht_put, count - 1 <= 0.75 * size;    *)
(* a call changes the size by doubling it once or not at all; and the      *)
(* size is initial_capacity * 2^n, never less than it was.                 *)
(***************************************************************************)
MaxDoublings == NumKeys + 1

RECURSIVE Pow2(_)
Pow2(n) == IF n = 0 THEN 1 ELSE 2 * Pow2(n - 1)

C22_BoundStep ==
    (ht' # NULL /\ ~allocFailed') =>
        /\ initial_capacity' >= 1
        /\ lastOp'.op = "ht_put" => (ht'.count - 1) * 4 <= ht'.size * 3
        /\ \E n \in 0..MaxDoublings : ht'.size = initial_capacity' * Pow2(n)
        /\ ht # NULL => ht'.size \in {ht.size, 2 * ht.size}

C22_PutBound == [][C22_BoundStep]_vars

\* a put has doubled the size and left the count above 0.75 * size
C22_Witness ==
    /\ ht # NULL
    /\ ~allocFailed
    /\ lastOp.op = "ht_put"
    /\ lastOp.resize = "done"
    /\ ht.size >= 2 * initial_capacity
    /\ ht.count * 4 > ht.size * 3

====
